---- MODULE Spec2Model ----
(***************************************************************************)
(* Model of package parse: the sticky-error cursors TextReader,            *)
(* BinaryReader and BinaryWriter.                                          *)
(*                                                                         *)
(* A cursor wraps a byte source or sink, counts the bytes it moved (n) and *)
(* latches the first error (err).  Byte strings are sequences of numbers   *)
(* 0..255, runes are code points, the bufio.Reader behind a TextReader is  *)
(* its read offset into the bytes the source delivers.                     *)
(***************************************************************************)
EXTENDS Integers, Sequences, FiniteSets, TLC

VARIABLES
    input,  \* the bytes the io.Reader under a reading cursor delivers
    tail,   \* what that io.Reader reports once the bytes are exhausted
    t,      \* the TextReader: [r, buf, n, err]
    br,     \* the BinaryReader: [r, ord, n, err]
    bw,     \* the BinaryWriter: [w, ord, n, err]
    live,   \* the cursor the caller drives: [cursor, type, sent]
    calls,  \* how many byte-moving calls the caller of a binary cursor made
    call    \* the last method call: [op, arg, ret, pre]

vars == <<input, tail, t, br, bw, live, calls, call>>

----------------------------------------------------------------------------
(* Bounds of the model.                                                    *)

\* Longest input enumerated exhaustively over Bytes.
MaxLen == 2

\* The bytes inputs are made of: 'a', ';', and 0xC3 0xA9, which together
\* encode U+00E9 and alone are invalid UTF-8.
Bytes == {97, 59, 195, 169}

----------------------------------------------------------------------------
(* Error values.                                                           *)

Nil == "nil"
EOF == "io.EOF"
ErrUnexpectedEOF == "io.ErrUnexpectedEOF"
ErrBufferFull == "bufio.ErrBufferFull"
\* Any error of the underlying source that is not io.EOF.
ErrIO == "source error"

----------------------------------------------------------------------------
(* unicode/utf8, as used through bufio.Reader.ReadRune and string(rune).   *)

RuneError == 65533

IsCont(b) == b >= 128 /\ b <= 191

\* utf8.DecodeRune on a non-empty byte string: the rune and its width;
\* (RuneError, 1) for an invalid or truncated encoding.
DecodeRune(p) ==
    LET p0 == p[1]
        size == IF p0 < 128 THEN 1
                ELSE IF p0 >= 194 /\ p0 <= 223 THEN 2
                ELSE IF p0 >= 224 /\ p0 <= 239 THEN 3
                ELSE IF p0 >= 240 /\ p0 <= 244 THEN 4
                ELSE 0
        lo == IF p0 = 224 THEN 160 ELSE IF p0 = 240 THEN 144 ELSE 128
        hi == IF p0 = 237 THEN 159 ELSE IF p0 = 244 THEN 143 ELSE 191
        bad == [c |-> RuneError, w |-> 1]
    IN  IF size = 1 THEN [c |-> p0, w |-> 1]
        ELSE IF size = 0 \/ Len(p) < size THEN bad
        ELSE IF p[2] < lo \/ p[2] > hi THEN bad
        ELSE IF size = 2
            THEN [c |-> (p0 % 32) * 64 + (p[2] % 64), w |-> 2]
        ELSE IF ~IsCont(p[3]) THEN bad
        ELSE IF size = 3
            THEN [c |-> (p0 % 16) * 4096 + (p[2] % 64) * 64 + (p[3] % 64),
                  w |-> 3]
        ELSE IF ~IsCont(p[4]) THEN bad
        ELSE [c |-> (p0 % 8) * 262144 + (p[2] % 64) * 4096
                    + (p[3] % 64) * 64 + (p[4] % 64),
              w |-> 4]

\* string(c): the UTF-8 encoding of rune c, as appended to t.buf.
EncodeRune(c) ==
    IF c < 0 \/ c > 1114111 \/ (c >= 55296 /\ c <= 57343)
        THEN <<239, 191, 189>>
    ELSE IF c < 128 THEN <<c>>
    ELSE IF c < 2048 THEN <<192 + (c \div 64), 128 + (c % 64)>>
    ELSE IF c < 65536
        THEN <<224 + (c \div 4096), 128 + ((c \div 64) % 64), 128 + (c % 64)>>
    ELSE <<240 + (c \div 262144), 128 + ((c \div 4096) % 64),
           128 + ((c \div 64) % 64), 128 + (c % 64)>>

----------------------------------------------------------------------------
(* bufio.Reader over the source.  r is the number of bytes already taken   *)
(* from the stream; errors of the source surface once the bytes before     *)
(* them are used up, and the source answers every read past its last byte  *)
(* the same way (tail).                                                    *)

\* Size of the bufio.Reader's buffer: NewTextReader keeps a *bufio.Reader it
\* is handed, and 16 bytes is the smallest one bufio makes.
BufSize == 16

\* The error the source reports after its last byte.
ReadErr == IF tail = "EOF" THEN EOF ELSE ErrIO

\* bufio.Reader.ReadRune at offset r: rune c, width w, error err.
ReadRune(r) ==
    IF r = Len(input)
        THEN [c |-> 0, w |-> 0, err |-> ReadErr]
        ELSE LET d == DecodeRune(SubSeq(input, r + 1, Len(input)))
             IN  [c |-> d.c, w |-> d.w, err |-> Nil]

\* bufio.Reader.UnreadRune right after a ReadRune of width w that left the
\* offset at r.
UnreadRune(r, w) == r - w

\* bufio.Reader.Peek(k) at offset r: the bytes and the error; fewer than k
\* bytes always come with an error.
Peek(r, k) ==
    LET avail == Len(input) - r
    IN  IF k > BufSize
            THEN [b |-> SubSeq(input, r + 1,
                               r + (IF avail < BufSize THEN avail ELSE BufSize)),
                  err |-> ErrBufferFull]
        ELSE IF avail < k
            THEN [b |-> SubSeq(input, r + 1, Len(input)), err |-> ReadErr]
        ELSE [b |-> SubSeq(input, r + 1, r + k), err |-> Nil]

\* bufio.Reader.Discard(k) after a successful Peek(k).
Discard(r, k) == r + k

\* ioutil.ReadAll(t.r) at offset r: everything left; io.EOF is not an error.
ReadAll(r) ==
    [b |-> SubSeq(input, r + 1, Len(input)),
     err |-> IF ReadErr = EOF THEN Nil ELSE ReadErr]

----------------------------------------------------------------------------
(* TextReader.  Every method maps the reader t0 to the reader after the    *)
(* call (t) and the returned values (ret).                                 *)

\* buf is the scratch slice as the scans see it: make([]byte, 64) gives 64
\* zero bytes, and every scan cuts the slice to buf[:0] before it reads or
\* appends, so they are never seen.
NewTextReader == [r |-> 0, buf |-> <<>>, n |-> 0, err |-> Nil]

N(t0) == t0.n

Err(t0) == t0.err

TextReader_Next(t0) ==
    IF t0.err # Nil THEN [t |-> t0, ret |-> [r |-> -1]]
    ELSE LET x == ReadRune(t0.r)
             t1 == [t0 EXCEPT !.r = @ + x.w, !.err = x.err]
         IN  IF t1.err # Nil THEN [t |-> t1, ret |-> [r |-> -1]]
             ELSE [t |-> [t1 EXCEPT !.n = @ + x.w], ret |-> [r |-> x.c]]

\* MustNext without the check of the latched fault.
MustNext_Unguarded(t0) ==
    LET x == TextReader_Next(t0)
    IN  IF x.ret.r < 0 /\ x.t.err = EOF
            THEN [t |-> [x.t EXCEPT !.err = ErrUnexpectedEOF], ret |-> x.ret]
            ELSE x

TextReader_MustNext(t0) ==
    IF t0.err # Nil THEN [t |-> t0, ret |-> [r |-> -1]]
    ELSE LET x == TextReader_Next(t0)
         IN  IF x.ret.r < 0 /\ x.t.err = EOF
                 THEN [t |-> [x.t EXCEPT !.err = ErrUnexpectedEOF], ret |-> x.ret]
                 ELSE x

\* Is clearing every error of the peek, not io.EOF alone.
Is_SwallowsPeekError(t0, s) ==
    IF t0.err # Nil THEN [t |-> t0, ret |-> [ok |-> FALSE]]
    ELSE IF s = <<>> THEN [t |-> t0, ret |-> [ok |-> TRUE]]
    ELSE LET p == Peek(t0.r, Len(s))
         IN  IF p.err # Nil \/ p.b # s THEN [t |-> t0, ret |-> [ok |-> FALSE]]
             ELSE [t |-> [t0 EXCEPT !.r = Discard(@, Len(s)), !.n = @ + Len(s)],
                   ret |-> [ok |-> TRUE]]

\* Is testing for the empty literal before the latched fault.
Is_EmptyBeforeFault(t0, s) ==
    IF s = <<>> THEN [t |-> t0, ret |-> [ok |-> TRUE]]
    ELSE IF t0.err # Nil THEN [t |-> t0, ret |-> [ok |-> FALSE]]
    ELSE LET p == Peek(t0.r, Len(s))
             t1 == [t0 EXCEPT !.err = p.err]
         IN  IF t1.err # Nil
                 THEN [t |-> IF t1.err = EOF THEN [t1 EXCEPT !.err = Nil] ELSE t1,
                       ret |-> [ok |-> FALSE]]
             ELSE IF p.b # s THEN [t |-> t1, ret |-> [ok |-> FALSE]]
             ELSE [t |-> [t1 EXCEPT !.r = Discard(@, Len(s)), !.n = @ + Len(s)],
                   ret |-> [ok |-> TRUE]]

TextReader_Is(t0, s) ==
    IF t0.err # Nil THEN [t |-> t0, ret |-> [ok |-> FALSE]]
    ELSE IF s = <<>> THEN [t |-> t0, ret |-> [ok |-> TRUE]]
    ELSE LET p == Peek(t0.r, Len(s))
             t1 == [t0 EXCEPT !.err = p.err]
         IN  IF t1.err # Nil
                 THEN [t |-> IF t1.err = EOF THEN [t1 EXCEPT !.err = Nil] ELSE t1,
                       ret |-> [ok |-> FALSE]]
             ELSE IF p.b # s THEN [t |-> t1, ret |-> [ok |-> FALSE]]
             ELSE [t |-> [t1 EXCEPT !.r = Discard(@, Len(s)), !.n = @ + Len(s)],
                   ret |-> [ok |-> TRUE]]

\* The loop of IsAny; f is the set of runes the predicate accepts.
RECURSIVE IsAnyLoop(_, _)
\* The loop of IsAny without the UnreadRune.
IsAnyLoop_NoUnread(t0, f) ==
    LET x == ReadRune(t0.r)
        t1 == [t0 EXCEPT !.r = @ + x.w, !.err = x.err]
    IN  IF t1.err # Nil
            THEN IF t1.err = EOF
                    THEN [t |-> [t1 EXCEPT !.err = Nil],
                          ret |-> [s |-> t1.buf, ok |-> TRUE]]
                    ELSE [t |-> t1, ret |-> [s |-> <<>>, ok |-> FALSE]]
        ELSE IF x.c \notin f
            THEN [t |-> t1, ret |-> [s |-> t1.buf, ok |-> TRUE]]
        ELSE IsAnyLoop([t1 EXCEPT !.buf = @ \o EncodeRune(x.c), !.n = @ + x.w], f)

IsAnyLoop(t0, f) ==
    LET x == ReadRune(t0.r)
        t1 == [t0 EXCEPT !.r = @ + x.w, !.err = x.err]
    IN  IF t1.err # Nil
            THEN IF t1.err = EOF
                    THEN [t |-> [t1 EXCEPT !.err = Nil],
                          ret |-> [s |-> t1.buf, ok |-> TRUE]]
                    ELSE [t |-> t1, ret |-> [s |-> <<>>, ok |-> FALSE]]
        ELSE IF x.c \notin f
            THEN [t |-> [t1 EXCEPT !.r = UnreadRune(@, x.w)],
                  ret |-> [s |-> t1.buf, ok |-> TRUE]]
        ELSE IsAnyLoop([t1 EXCEPT !.buf = @ \o EncodeRune(x.c), !.n = @ + x.w], f)

TextReader_IsAny(t0, f) ==
    IF t0.err # Nil THEN [t |-> t0, ret |-> [s |-> <<>>, ok |-> FALSE]]
    ELSE IsAnyLoop([t0 EXCEPT !.buf = <<>>], f)

\* IsEOF latching what its peek met.
IsEOF_LatchesPeek(t0) ==
    IF t0.err # Nil THEN [t |-> t0, ret |-> [ok |-> t0.err = EOF]]
    ELSE LET e == Peek(t0.r, 1).err
         IN  [t |-> [t0 EXCEPT !.err = e], ret |-> [ok |-> e = EOF]]

TextReader_IsEOF(t0) ==
    IF t0.err # Nil THEN [t |-> t0, ret |-> [ok |-> t0.err = EOF]]
    ELSE [t |-> t0, ret |-> [ok |-> Peek(t0.r, 1).err = EOF]]

RECURSIVE SkipLoop(_, _)
\* The loop of Skip reporting success whatever the read met.
SkipLoop_IgnoresError(t0, f) ==
    LET x == ReadRune(t0.r)
        t1 == [t0 EXCEPT !.r = @ + x.w, !.err = x.err]
    IN  IF t1.err # Nil
            THEN IF t1.err = EOF
                    THEN [t |-> [t1 EXCEPT !.err = Nil], ret |-> [ok |-> TRUE]]
                    ELSE [t |-> t1, ret |-> [ok |-> TRUE]]
        ELSE IF x.c \notin f
            THEN [t |-> [t1 EXCEPT !.r = UnreadRune(@, x.w)], ret |-> [ok |-> TRUE]]
        ELSE SkipLoop([t1 EXCEPT !.n = @ + x.w], f)

SkipLoop(t0, f) ==
    LET x == ReadRune(t0.r)
        t1 == [t0 EXCEPT !.r = @ + x.w, !.err = x.err]
    IN  IF t1.err # Nil
            THEN IF t1.err = EOF
                    THEN [t |-> [t1 EXCEPT !.err = Nil], ret |-> [ok |-> TRUE]]
                    ELSE [t |-> t1, ret |-> [ok |-> FALSE]]
        ELSE IF x.c \notin f
            THEN [t |-> [t1 EXCEPT !.r = UnreadRune(@, x.w)], ret |-> [ok |-> TRUE]]
        ELSE SkipLoop([t1 EXCEPT !.n = @ + x.w], f)

TextReader_Skip(t0, f) ==
    IF t0.err # Nil THEN [t |-> t0, ret |-> [ok |-> FALSE]]
    ELSE SkipLoop(t0, f)

RECURSIVE UntilLoop(_, _)
\* The loop of Until putting the terminator back.
UntilLoop_Unread(t0, v) ==
    LET x == ReadRune(t0.r)
        t1 == [t0 EXCEPT !.r = @ + x.w, !.err = x.err]
    IN  IF t1.err # Nil
            THEN [t |-> IF t1.err = EOF
                           THEN [t1 EXCEPT !.err = ErrUnexpectedEOF] ELSE t1,
                  ret |-> [s |-> <<>>, ok |-> FALSE]]
        ELSE IF x.c = v
            THEN [t |-> [t1 EXCEPT !.r = UnreadRune(@, x.w)],
                  ret |-> [s |-> t1.buf, ok |-> TRUE]]
        ELSE UntilLoop([t1 EXCEPT !.buf = @ \o EncodeRune(x.c), !.n = @ + x.w], v)

UntilLoop(t0, v) ==
    LET x == ReadRune(t0.r)
        t1 == [t0 EXCEPT !.r = @ + x.w, !.err = x.err]
    IN  IF t1.err # Nil
            THEN [t |-> IF t1.err = EOF
                           THEN [t1 EXCEPT !.err = ErrUnexpectedEOF] ELSE t1,
                  ret |-> [s |-> <<>>, ok |-> FALSE]]
        ELSE IF x.c = v
            THEN [t |-> t1, ret |-> [s |-> t1.buf, ok |-> TRUE]]
        ELSE UntilLoop([t1 EXCEPT !.buf = @ \o EncodeRune(x.c), !.n = @ + x.w], v)

TextReader_Until(t0, v) ==
    IF t0.err # Nil THEN [t |-> t0, ret |-> [s |-> <<>>, ok |-> FALSE]]
    ELSE UntilLoop([t0 EXCEPT !.buf = <<>>], v)

RECURSIVE UntilAnyLoop(_, _)
\* The loop of UntilAny latching io.EOF as it comes.
UntilAnyLoop_CleanEOF(t0, f) ==
    LET x == ReadRune(t0.r)
        t1 == [t0 EXCEPT !.r = @ + x.w, !.err = x.err]
    IN  IF t1.err # Nil
            THEN [t |-> t1, ret |-> [s |-> <<>>, ok |-> FALSE]]
        ELSE IF x.c \in f
            THEN [t |-> t1, ret |-> [s |-> t1.buf, ok |-> TRUE]]
        ELSE UntilAnyLoop([t1 EXCEPT !.buf = @ \o EncodeRune(x.c), !.n = @ + x.w], f)

UntilAnyLoop(t0, f) ==
    LET x == ReadRune(t0.r)
        t1 == [t0 EXCEPT !.r = @ + x.w, !.err = x.err]
    IN  IF t1.err # Nil
            THEN [t |-> IF t1.err = EOF
                           THEN [t1 EXCEPT !.err = ErrUnexpectedEOF] ELSE t1,
                  ret |-> [s |-> <<>>, ok |-> FALSE]]
        ELSE IF x.c \in f
            THEN [t |-> t1, ret |-> [s |-> t1.buf, ok |-> TRUE]]
        ELSE UntilAnyLoop([t1 EXCEPT !.buf = @ \o EncodeRune(x.c), !.n = @ + x.w], f)

TextReader_UntilAny(t0, f) ==
    IF t0.err # Nil THEN [t |-> t0, ret |-> [s |-> <<>>, ok |-> FALSE]]
    ELSE UntilAnyLoop([t0 EXCEPT !.buf = <<>>], f)

TextReader_UntilEOF(t0) ==
    IF t0.err # Nil THEN [t |-> t0, ret |-> [s |-> <<>>, ok |-> FALSE]]
    ELSE LET a == ReadAll(t0.r)
             t1 == [t0 EXCEPT !.r = @ + Len(a.b), !.err = a.err]
         IN  IF t1.err # Nil THEN [t |-> t1, ret |-> [s |-> <<>>, ok |-> FALSE]]
             ELSE [t |-> [t1 EXCEPT !.n = @ + Len(a.b)],
                   ret |-> [s |-> a.b, ok |-> TRUE]]

----------------------------------------------------------------------------
(* encoding/binary and io, as used by the binary cursors.                  *)

LittleEndian == "LittleEndian"
BigEndian == "BigEndian"

RECURSIVE Reverse(_)
Reverse(b) == IF b = <<>> THEN <<>> ELSE Reverse(Tail(b)) \o <<Head(b)>>

\* A number is its type and its bit pattern, written as the bytes of the
\* unsigned value from the least significant one up.
\* Decoding that reads every order as little-endian.
Uint_AlwaysLittle(ord, b) == b

\* ByteOrder.Uint16/Uint32/Uint64: the bit pattern stored in bytes b.
Uint(ord, b) == IF ord = LittleEndian THEN b ELSE Reverse(b)

\* Encoding that writes every order as little-endian.
PutUint_AlwaysLittle(ord, bits) == bits

\* ByteOrder.PutUint16/PutUint32/PutUint64: the bytes storing a bit pattern.
PutUint(ord, bits) == IF ord = LittleEndian THEN bits ELSE Reverse(bits)

\* io.ReadFull(r, p) with len(p) = k, at offset r of the source: the bytes
\* read and the error.
ReadFull(r, k) ==
    LET avail == Len(input) - r
    IN  IF avail >= k THEN [b |-> SubSeq(input, r + 1, r + k), err |-> Nil]
        ELSE [b |-> SubSeq(input, r + 1, Len(input)),
              err |-> IF ReadErr # EOF THEN ReadErr
                      ELSE IF avail > 0 THEN ErrUnexpectedEOF ELSE EOF]

\* io.ReadAll(r) at offset r of the source.
IoReadAll(r) ==
    [b |-> SubSeq(input, r + 1, Len(input)),
     err |-> IF ReadErr = EOF THEN Nil ELSE ReadErr]

----------------------------------------------------------------------------
(* NumberSize and the dynamic types a caller may pass.                     *)

NumTypes ==
    {"int8", "uint8", "int16", "uint16", "int32", "uint32", "int64", "uint64",
     "float32", "float64"}

\* The pointer type to ty.
Ptr(ty) == "*" \o ty

PtrTypes == {Ptr(ty) : ty \in NumTypes}

\* Types NumberSize does not know.
OtherTypes == {"int", "string", "*int", "nil"}

NumberSize(ty) ==
    IF ty \in {"int8", "uint8", "*int8", "*uint8"} THEN 1
    ELSE IF ty \in {"int16", "uint16", "*int16", "*uint16"} THEN 2
    ELSE IF ty \in {"int32", "uint32", "float32", "*int32", "*uint32", "*float32"}
        THEN 4
    ELSE IF ty \in {"int64", "uint64", "float64", "*int64", "*uint64", "*float64"}
        THEN 8
    ELSE 0

----------------------------------------------------------------------------
(* BinaryReader.  Every method maps the reader b0 to the reader after the  *)
(* call (b) and what the call returned (ret); a call that panics returns   *)
(* nothing and ret.panic holds the panic value.                            *)

NoPanic == "none"

NewBinaryReader == [r |-> 0, ord |-> LittleEndian, n |-> 0, err |-> Nil]

Failed(flag) == [failed |-> flag, panic |-> NoPanic]

Panicked(msg) == [panic |-> msg]

BinaryReader_SetByteOrder(b0, order) ==
    IF order = Nil THEN [b |-> b0, ret |-> Panicked("expected non-nil ByteOrder")]
    ELSE [b |-> [b0 EXCEPT !.ord = order], ret |-> [panic |-> NoPanic]]

BinaryReader_Add(b0, n, err) ==
    IF b0.err # Nil THEN [b |-> b0, ret |-> Failed(TRUE)]
    ELSE LET b1 == [b0 EXCEPT !.n = @ + n, !.err = err]
         IN  [b |-> b1, ret |-> Failed(b1.err # Nil)]

\* Bytes counting the bytes asked for, not the bytes read.
ReaderBytes_CountsRequested(b0, k) ==
    IF b0.err # Nil THEN [b |-> b0, ret |-> Failed(TRUE) @@ [p |-> <<>>]]
    ELSE LET x == ReadFull(b0.r, k)
             b1 == [b0 EXCEPT !.r = @ + Len(x.b), !.err = x.err, !.n = @ + k]
         IN  [b |-> b1, ret |-> Failed(b1.err # Nil) @@ [p |-> x.b]]

\* Bytes(p) with len(p) = k; ret.p is what the call stored in p.
BinaryReader_Bytes(b0, k) ==
    IF b0.err # Nil THEN [b |-> b0, ret |-> Failed(TRUE) @@ [p |-> <<>>]]
    ELSE LET x == ReadFull(b0.r, k)
             b1 == [b0 EXCEPT !.r = @ + Len(x.b), !.err = x.err, !.n = @ + Len(x.b)]
         IN  [b |-> b1, ret |-> Failed(b1.err # Nil) @@ [p |-> x.b]]

\* Number(v) with v of dynamic type ty; ret.v is the number stored through v.
BinaryReader_Number(b0, ty) ==
    IF b0.err # Nil THEN [b |-> b0, ret |-> Failed(TRUE)]
    ELSE IF NumberSize(ty) = 0 THEN [b |-> b0, ret |-> Panicked("invalid type")]
    ELSE LET x == BinaryReader_Bytes(b0, NumberSize(ty))
         IN  IF x.ret.failed THEN [b |-> x.b, ret |-> Failed(TRUE)]
             ELSE IF ty \in {"*int8", "*uint8"}
                 THEN [b |-> x.b,
                       ret |-> Failed(FALSE) @@ [v |-> [type |-> ty, bits |-> <<x.ret.p[1]>>]]]
             ELSE IF ty \in PtrTypes
                 THEN [b |-> x.b,
                       ret |-> Failed(FALSE)
                               @@ [v |-> [type |-> ty, bits |-> Uint(b0.ord, x.ret.p)]]]
             ELSE [b |-> x.b, ret |-> Panicked("invalid type")]

BinaryReader_All(b0) ==
    IF b0.err # Nil THEN [b |-> b0, ret |-> Failed(TRUE) @@ [data |-> <<>>]]
    ELSE LET x == IoReadAll(b0.r)
             b1 == [b0 EXCEPT !.r = @ + Len(x.b), !.err = x.err, !.n = @ + Len(x.b)]
         IN  IF b1.err # Nil THEN [b |-> b1, ret |-> Failed(TRUE) @@ [data |-> <<>>]]
             ELSE [b |-> b1, ret |-> Failed(FALSE) @@ [data |-> x.b]]

----------------------------------------------------------------------------
(* BinaryWriter.  w is what the sink has accepted so far; a Write of p is  *)
(* answered by the sink with the count k it accepted and an error e.       *)

NewBinaryWriter == [w |-> <<>>, ord |-> LittleEndian, n |-> 0, err |-> Nil]

BinaryWriter_SetByteOrder(b0, order) ==
    IF order = Nil THEN [b |-> b0, ret |-> Panicked("expected non-nil ByteOrder")]
    ELSE [b |-> [b0 EXCEPT !.ord = order], ret |-> [panic |-> NoPanic]]

BinaryWriter_Add(b0, n, err) ==
    IF b0.err # Nil THEN [b |-> b0, ret |-> Failed(TRUE)]
    ELSE LET b1 == [b0 EXCEPT !.n = @ + n, !.err = err]
         IN  [b |-> b1, ret |-> Failed(b1.err # Nil)]

\* Bytes without the check of the latched fault.
WriterBytes_Unguarded(b0, p, k, e) ==
    LET b1 == [b0 EXCEPT !.w = @ \o SubSeq(p, 1, k), !.err = e, !.n = @ + k]
    IN  [b |-> b1, ret |-> Failed(k < Len(p))]

\* Bytes counting the whole buffer, not what the sink accepted.
WriterBytes_CountsAll(b0, p, k, e) ==
    IF b0.err # Nil THEN [b |-> b0, ret |-> Failed(TRUE)]
    ELSE LET b1 == [b0 EXCEPT !.w = @ \o SubSeq(p, 1, k), !.err = e, !.n = @ + Len(p)]
         IN  [b |-> b1, ret |-> Failed(k < Len(p))]

BinaryWriter_Bytes(b0, p, k, e) ==
    IF b0.err # Nil THEN [b |-> b0, ret |-> Failed(TRUE)]
    ELSE LET b1 == [b0 EXCEPT !.w = @ \o SubSeq(p, 1, k), !.err = e, !.n = @ + k]
         IN  [b |-> b1, ret |-> Failed(k < Len(p))]

\* Number(v) with v = [type, bits]; the sink answers the Write with (k, e).
BinaryWriter_Number(b0, v, k, e) ==
    IF b0.err # Nil THEN [b |-> b0, ret |-> Failed(TRUE)]
    ELSE IF NumberSize(v.type) = 0 THEN [b |-> b0, ret |-> Panicked("invalid type")]
    ELSE IF v.type \in {"int8", "uint8"}
        THEN BinaryWriter_Bytes(b0, <<v.bits[1]>>, k, e)
    ELSE IF v.type \in NumTypes
        THEN BinaryWriter_Bytes(b0, PutUint(b0.ord, v.bits), k, e)
    ELSE [b |-> b0, ret |-> Panicked("invalid type")]

----------------------------------------------------------------------------
(* Inputs of the calls.                                                    *)

\* All byte strings over Bytes of length at most k.
Strings(k) == UNION {[1..j -> Bytes] : j \in 0..k}

\* A literal one byte longer than the bufio buffer, and an input that
\* starts with it.
LongLiteral == [i \in 1..(BufSize + 1) |-> 97]
LongInput == LongLiteral \o <<59>>

\* "abc;def", ";a\u00e9", "GET /x", "POST /x", "a;a" and "\u00e9;a".
Scenarios ==
    { <<97, 98, 99, 59, 100, 101, 102>>,
      <<59, 97, 195, 169>>,
      <<71, 69, 84, 32, 47, 120>>,
      <<80, 79, 83, 84, 32, 47, 120>>,
      <<97, 59, 97>>,
      <<195, 169, 59, 97>> }

Inputs == Strings(MaxLen) \cup Scenarios \cup {LongInput}

\* Arguments of Is: "", "a", "a;", "\u00e9", half of it, "GET", and the
\* long literal.
Literals ==
    {<<>>, <<97>>, <<97, 59>>, <<195, 169>>, <<195>>, <<71, 69, 84>>, LongLiteral}

\* Arguments of IsAny, Skip and UntilAny: the runes the predicate accepts.
Preds == {{97, 233}, {59}, {RuneError, 59}, {}}

\* Arguments of Until.
Runes == {97, 59, 233, RuneError}

----------------------------------------------------------------------------
(* The state machine of a TextReader: a caller applies methods in any      *)
(* order.                                                                  *)

\* live.sent while no number has been handed from a writer to a reader.
NoNumber == [type |-> "none", bits |-> <<>>]

Init ==
    /\ input \in Inputs
    /\ tail \in {"EOF", "ErrIO"}
    /\ t = NewTextReader
    /\ br = NewBinaryReader
    /\ bw = NewBinaryWriter
    /\ live = [cursor |-> "TextReader", type |-> "none", sent |-> NoNumber]
    /\ calls = 0
    /\ call = [op |-> "NewTextReader", arg |-> <<>>, ret |-> <<>>, pre |-> NewTextReader]

Do(op, arg, res) ==
    /\ t' = res.t
    /\ call' = [op |-> op, arg |-> arg, ret |-> res.ret, pre |-> t]
    /\ UNCHANGED <<input, tail, br, bw, live, calls>>

CallNext == Do("Next", <<>>, TextReader_Next(t))

CallMustNext == Do("MustNext", <<>>, TextReader_MustNext(t))

CallIs == \E s \in Literals : Do("Is", s, TextReader_Is(t, s))

CallIsAny == \E f \in Preds : Do("IsAny", f, TextReader_IsAny(t, f))

CallIsEOF == Do("IsEOF", <<>>, TextReader_IsEOF(t))

CallSkip == \E f \in Preds : Do("Skip", f, TextReader_Skip(t, f))

CallUntil == \E v \in Runes : Do("Until", v, TextReader_Until(t, v))

CallUntilAny == \E f \in Preds : Do("UntilAny", f, TextReader_UntilAny(t, f))

CallUntilEOF == Do("UntilEOF", <<>>, TextReader_UntilEOF(t))

Next ==
    \/ CallNext
    \/ CallMustNext
    \/ CallIs
    \/ CallIsAny
    \/ CallIsEOF
    \/ CallSkip
    \/ CallUntil
    \/ CallUntilAny
    \/ CallUntilEOF

Spec == Init /\ [][Next]_vars

----------------------------------------------------------------------------
(* Vocabulary of the properties of a TextReader.                           *)

\* The runes of byte string p, each with its width in p.
RECURSIVE Chars(_)
Chars(p) ==
    IF p = <<>> THEN <<>>
    ELSE LET d == DecodeRune(p)
         IN  <<d>> \o Chars(SubSeq(p, d.w + 1, Len(p)))

\* The runes alone.
RunesOf(p) == LET cs == Chars(p) IN [i \in DOMAIN cs |-> cs[i].c]

\* The input from offset r on.
Rest(r) == SubSeq(input, r + 1, Len(input))

\* The bytes the first k of the characters cs take.
RECURSIVE Width(_, _)
Width(cs, k) == IF k = 0 THEN 0 ELSE cs[k].w + Width(cs, k - 1)

\* The index of the first character of cs in the set f, or 0.
First(cs, f) ==
    IF \E i \in DOMAIN cs : cs[i].c \in f
        THEN CHOOSE i \in DOMAIN cs :
                 cs[i].c \in f /\ \A j \in 1..(i - 1) : cs[j].c \notin f
        ELSE 0

\* The index of the first character of cs outside f, or Len(cs) + 1.
FirstOutside(cs, f) ==
    IF \E i \in DOMAIN cs : cs[i].c \notin f
        THEN CHOOSE i \in DOMAIN cs :
                 cs[i].c \notin f /\ \A j \in 1..(i - 1) : cs[j].c \in f
        ELSE Len(cs) + 1

\* The first k runes of cs.
Before(cs, k) == [i \in 1..k |-> cs[i].c]

\* The last call was op, made with no fault latched.
FaultFree(op) == call.op = op /\ call.pre.err = Nil

\* The last call left position, count and fault as they were.
Untouched == t.r = call.pre.r /\ N(t) = N(call.pre) /\ Err(t) = Err(call.pre)

\* What the next read returns in state t0.
Read(t0) == TextReader_Next(t0).ret.r

----------------------------------------------------------------------------
(* Properties of the TextReader, checked under Spec.                       *)

\* C2: once a fault is latched, Next, MustNext, Is, IsAny, Skip, Until,
\* UntilAny and UntilEOF return their failure value (-1, false, ("", false))
\* and leave N(), Err() and the stream position unchanged; a latched io.EOF
\* stays io.EOF under MustNext.
C2_StickyText ==
    call.pre.err # Nil =>
        /\ call.op \in {"Next", "MustNext"} => call.ret.r = -1 /\ Untouched
        /\ call.op \in {"Is", "Skip"} => ~call.ret.ok /\ Untouched
        /\ call.op \in {"IsAny", "Until", "UntilAny", "UntilEOF"} =>
               call.ret.s = <<>> /\ ~call.ret.ok /\ Untouched

C2_Witness ==
    call.op = "MustNext" /\ call.pre.err = EOF /\ call.pre.r > 0

\* C3: after any sequence of calls N() is the number of input bytes before
\* the cursor, and a successful call adds to N() the bytes it consumed.
C3_CountExact ==
    /\ N(t) = t.r
    /\ Err(t) = Nil => N(t) - N(call.pre) = t.r - call.pre.r

\* C4: UntilAny(f), with no fault latched and a character in f ahead,
\* returns the characters before the first such character with ok=true and
\* leaves that character for the next read.
C4_UntilAnyLeavesMatch ==
    LET cs == Chars(Rest(call.pre.r))
        k == First(cs, call.arg)
    IN  (FaultFree("UntilAny") /\ k > 0) =>
            /\ call.ret.ok
            /\ RunesOf(call.ret.s) = Before(cs, k - 1)
            /\ t.r = call.pre.r + Width(cs, k - 1)
            /\ Read(t) = cs[k].c

\* C5: Until(v), with no fault latched and v ahead, returns the characters
\* before the first v with ok=true, consumes that v, and leaves the cursor
\* on the character right after it.
C5_UntilConsumesTerminator ==
    LET cs == Chars(Rest(call.pre.r))
        k == First(cs, {call.arg})
    IN  (FaultFree("Until") /\ k > 0) =>
            /\ call.ret.ok
            /\ Err(t) = Nil
            /\ RunesOf(call.ret.s) = Before(cs, k - 1)
            /\ t.r = call.pre.r + Width(cs, k)
            /\ k < Len(cs) => Read(t) = cs[k + 1].c

\* "abc;def": Until(';') from the start returned "abc" and the next read
\* yields 'd'.
C5_Witness ==
    /\ FaultFree("Until") /\ call.arg = 59 /\ call.pre.r = 0
    /\ input = <<97, 98, 99, 59, 100, 101, 102>>
    /\ call.ret.s = <<97, 98, 99>>
    /\ Read(t) = 100

\* C6: Is(s), with no fault latched and a source that ends in end-of-input:
\* if the next len(s) bytes equal s it returns true and advances cursor and
\* N() by len(s); otherwise it returns false, leaves position and N() alone,
\* and a read afterwards yields what it would have yielded before.
C6_IsLookahead ==
    LET s == call.arg
        r == call.pre.r
    IN  (FaultFree("Is") /\ tail = "EOF") =>
            IF Len(Rest(r)) >= Len(s) /\ SubSeq(input, r + 1, r + Len(s)) = s
                THEN /\ call.ret.ok
                     /\ t.r = r + Len(s)
                     /\ N(t) = N(call.pre) + Len(s)
                ELSE /\ ~call.ret.ok
                     /\ t.r = r
                     /\ N(t) = N(call.pre)
                     /\ Read(t) = Read(call.pre)

\* C7: IsAny(f), with no fault latched and a source that ends in
\* end-of-input, returns ok=true and the longest run of characters in f,
\* adds its byte length to N(), leaves the first character outside f as
\* the next one read, and leaves Err() nil, also when the run reaches the
\* end of the input; Skip(f) ends in the same position, N(), Err() and ok,
\* whatever the source ends in.
C7_GreedyScan ==
    LET cs == Chars(Rest(call.pre.r))
        k == FirstOutside(cs, call.arg)
        skip == TextReader_Skip(call.pre, call.arg)
    IN  FaultFree("IsAny") =>
            /\ tail = "EOF" =>
                   /\ call.ret.ok
                   /\ RunesOf(call.ret.s) = Before(cs, k - 1)
                   /\ N(t) = N(call.pre) + Width(cs, k - 1)
                   /\ t.r = call.pre.r + Width(cs, k - 1)
                   /\ k <= Len(cs) => Read(t) = cs[k].c
                   /\ Err(t) = Nil
            /\ skip.t.r = t.r
            /\ N(skip.t) = N(t)
            /\ Err(skip.t) = Err(t)
            /\ skip.ret.ok = call.ret.ok

\* IsAny took an 'a' and a two-byte character and ran into the end of the
\* input.
C7_Witness ==
    /\ FaultFree("IsAny") /\ call.arg = {97, 233} /\ tail = "EOF"
    /\ call.ret.s = <<97, 195, 169>>
    /\ t.r = Len(input) /\ N(t) = N(call.pre) + 3

\* C8: with no fault latched, Next at end-of-input returns a negative rune
\* and latches io.EOF; MustNext at end-of-input, and Until / UntilAny that
\* reach end-of-input before a terminator, return their failure value and
\* latch io.ErrUnexpectedEOF.
C8_CleanVsUnexpectedEOF ==
    LET cs == Chars(Rest(call.pre.r))
    IN  (call.pre.err = Nil /\ tail = "EOF") =>
            /\ (call.op = "Next" /\ cs = <<>>) =>
                   call.ret.r < 0 /\ Err(t) = EOF
            /\ (call.op = "MustNext" /\ cs = <<>>) =>
                   call.ret.r = -1 /\ Err(t) = ErrUnexpectedEOF
            /\ (call.op = "Until" /\ First(cs, {call.arg}) = 0) =>
                   call.ret.s = <<>> /\ ~call.ret.ok /\ Err(t) = ErrUnexpectedEOF
            /\ (call.op = "UntilAny" /\ First(cs, call.arg) = 0) =>
                   call.ret.s = <<>> /\ ~call.ret.ok /\ Err(t) = ErrUnexpectedEOF

\* Until ran over two characters into the end of the input.
C8_Witness ==
    /\ FaultFree("Until") /\ tail = "EOF"
    /\ t.r = Len(input) /\ t.r >= call.pre.r + 2
    /\ Err(t) = ErrUnexpectedEOF

\* The peek of Is failed with end-of-input or with an error of the source.
PeekFailed ==
    /\ FaultFree("Is") /\ call.arg # <<>>
    /\ Peek(call.pre.r, Len(call.arg)).err \in {EOF, ErrIO}

\* C9 as stated: whenever the peek of Is fails, with end-of-input or with an
\* error of the source, Is returns false and Err() is still nil.
C9_IsNeverLatches == PeekFailed => ~call.ret.ok /\ Err(t) = Nil

\* C9 amended: whenever the peek of Is fails, Is returns false and leaves
\* position and N() alone; Err() is still nil when the peek met end-of-input,
\* and holds the error when the peek met an error of the source.
C9_IsLatchesSourceError ==
    PeekFailed =>
        /\ ~call.ret.ok
        /\ t.r = call.pre.r /\ N(t) = N(call.pre)
        /\ Err(t) = (IF tail = "EOF" THEN Nil ELSE ErrIO)

\* Is("a;") met an error of the source after one byte.
C9_Witness ==
    /\ PeekFailed /\ tail = "ErrIO"
    /\ call.arg = <<97, 59>> /\ Len(Rest(call.pre.r)) = 1

\* C10 as stated: Is("") returns true and consumes nothing in every state.
C10_EmptyAlwaysTrue ==
    (call.op = "Is" /\ call.arg = <<>>) => call.ret.ok /\ Untouched

\* C10 amended: Is("") consumes nothing in every state; it returns true when
\* no fault is latched and false when one is.
C10_EmptyTrueUnlessFaulted ==
    (call.op = "Is" /\ call.arg = <<>>) =>
        /\ Untouched
        /\ call.ret.ok <=> call.pre.err = Nil

\* Is("") with a fault latched, after some input was consumed.
C10_Witness ==
    /\ call.op = "Is" /\ call.arg = <<>> /\ call.pre.r > 0
    /\ call.pre.err = ErrUnexpectedEOF

C12_IsEOFPureQuery ==
    call.op = "IsEOF" =>
        /\ Untouched
        /\ call.ret.ok <=>
               \/ call.pre.err = EOF
               \/ call.pre.err = Nil /\ call.pre.r = Len(input) /\ tail = "EOF"

\* IsEOF answers true, with no fault latched, at the end of a consumed input.
C12_Witness ==
    /\ FaultFree("IsEOF") /\ call.pre.r = Len(input) /\ call.pre.r > 0
    /\ call.ret.ok /\ Err(t) = Nil

----------------------------------------------------------------------------
(* The state machine of the binary cursors: a caller drives a BinaryReader *)
(* over a source, or a BinaryWriter over a sink, calling methods in any    *)
(* order; a panic is recovered by the caller, who may go on.  A writing    *)
(* caller writes numbers of one type, live.type: Number keeps nothing      *)
(* between calls that depends on the type.  A caller who wrote one number  *)
(* may read it back: live.sent is that number, the sink's bytes the source.*)

\* Longest source of a BinaryReader.
MaxData == 8

\* How many calls that move bytes (Add, Bytes, Number, All) a caller makes.
MaxCalls == 2

\* Sources: the prefixes of 01 02 03 ..
Pattern(k) == [i \in 1..k |-> i]
Sources == {Pattern(k) : k \in 0..MaxData}

\* len(p) of the buffers handed to BinaryReader.Bytes.
ReadLens == {0, 2, 10}

\* Buffers handed to BinaryWriter.Bytes.
WriteBufs == {<<>>, <<7, 8, 9>>}

\* Bit patterns of a number of ty: 0, all ones (-1, or the largest unsigned),
\* the smallest and the largest signed, and 01 02 .. from the most
\* significant byte down.
BitsOf(ty) ==
    LET k == NumberSize(ty)
    IN  { [i \in 1..k |-> 0], [i \in 1..k |-> 255],
          [i \in 1..k |-> IF i = k THEN 128 ELSE 0],
          [i \in 1..k |-> IF i = k THEN 127 ELSE 255],
          [i \in 1..k |-> k + 1 - i] }

\* Values handed to BinaryWriter.Number by a caller writing numbers of ty:
\* the numbers, a pointer to one, and values of types NumberSize rejects.
Values(ty) ==
    {[type |-> ty, bits |-> b] : b \in BitsOf(ty)}
    \cup {[type |-> x, bits |-> <<>>] : x \in {Ptr(ty), "int", "nil"}}

\* Dynamic types handed to BinaryReader.Number.
ReadTypes == PtrTypes \cup {"int8", "uint32", "int", "nil"}

Orders == {LittleEndian, BigEndian, Nil}

\* Results folded in through Add.
AddCounts == {-1, 3}
AddErrors == {Nil, ErrIO}

\* What a sink may answer to a Write of p: a count and an error.
Answers(p) == ({0, Len(p) - 1, Len(p)} \cap (0..Len(p))) \X {Nil, ErrIO}

InitBinary ==
    /\ \/ /\ live = [cursor |-> "BinaryReader", type |-> "none", sent |-> NoNumber]
          /\ input \in Sources
          /\ tail \in {"EOF", "ErrIO"}
       \/ /\ live \in {[cursor |-> "BinaryWriter", type |-> ty, sent |-> NoNumber] :
                           ty \in NumTypes}
          /\ input = <<>>
          /\ tail = "EOF"
    /\ t = NewTextReader
    /\ br = NewBinaryReader
    /\ bw = NewBinaryWriter
    /\ calls = 0
    /\ call = [op |-> "New", arg |-> <<>>, ret |-> [panic |-> NoPanic],
               pre |-> IF live.cursor = "BinaryReader" THEN NewBinaryReader
                       ELSE NewBinaryWriter]

DoReader(op, arg, res, moves) ==
    /\ live.cursor = "BinaryReader"
    /\ calls + moves <= MaxCalls
    /\ br' = res.b
    /\ calls' = calls + moves
    /\ call' = [op |-> op, arg |-> arg, ret |-> res.ret, pre |-> br]
    /\ UNCHANGED <<input, tail, t, bw, live>>

DoWriter(op, arg, res, moves) ==
    /\ live.cursor = "BinaryWriter"
    /\ calls + moves <= MaxCalls
    /\ bw' = res.b
    /\ calls' = calls + moves
    /\ call' = [op |-> op, arg |-> arg, ret |-> res.ret, pre |-> bw]
    /\ UNCHANGED <<input, tail, t, br, live>>

ReaderSetByteOrder ==
    \E o \in Orders : DoReader("SetByteOrder", o, BinaryReader_SetByteOrder(br, o), 0)

ReaderAdd ==
    \E n \in AddCounts, e \in AddErrors :
        DoReader("Add", [n |-> n, err |-> e], BinaryReader_Add(br, n, e), 1)

ReaderBytes == \E k \in ReadLens : DoReader("Bytes", k, BinaryReader_Bytes(br, k), 1)

ReaderNumber ==
    \E ty \in ReadTypes : DoReader("Number", ty, BinaryReader_Number(br, ty), 1)

ReaderAll == DoReader("All", <<>>, BinaryReader_All(br), 1)

WriterSetByteOrder ==
    \E o \in Orders : DoWriter("SetByteOrder", o, BinaryWriter_SetByteOrder(bw, o), 0)

WriterAdd ==
    \E n \in AddCounts, e \in AddErrors :
        DoWriter("Add", [n |-> n, err |-> e], BinaryWriter_Add(bw, n, e), 1)

WriterBytes ==
    \E p \in WriteBufs : \E a \in Answers(p) :
        DoWriter("Bytes", p, BinaryWriter_Bytes(bw, p, a[1], a[2]), 1)

WriterNumber ==
    \E v \in Values(live.type) :
        \E a \in Answers([i \in 1..NumberSize(v.type) |-> 0]) :
            DoWriter("Number", v, BinaryWriter_Number(bw, v, a[1], a[2]), 1)

\* The caller wrote one number to a new writer, the sink took it whole, and
\* the caller opens a new reader over the bytes the sink holds.
Pipe ==
    /\ live.cursor = "BinaryWriter"
    /\ call.op = "Number" /\ call.ret.panic = NoPanic /\ ~call.ret.failed
    /\ call.pre.w = <<>> /\ call.pre.n = 0 /\ bw.err = Nil
    /\ input' = bw.w
    /\ tail' = "EOF"
    /\ live' = [cursor |-> "BinaryReader", type |-> live.type, sent |-> call.arg]
    /\ br' = NewBinaryReader
    /\ call' = [op |-> "New", arg |-> <<>>, ret |-> [panic |-> NoPanic],
                pre |-> NewBinaryReader]
    /\ UNCHANGED <<t, bw, calls>>

NextBinary ==
    \/ ReaderSetByteOrder
    \/ ReaderAdd
    \/ ReaderBytes
    \/ ReaderNumber
    \/ ReaderAll
    \/ WriterSetByteOrder
    \/ WriterAdd
    \/ WriterBytes
    \/ WriterNumber
    \/ Pipe

SpecBinary == InitBinary /\ [][NextBinary]_vars

----------------------------------------------------------------------------
(* Properties of the binary cursors, checked under SpecBinary.             *)

\* The cursor the caller drives.
Cursor == IF live.cursor = "BinaryReader" THEN br ELSE bw

\* The last call was Number with a value of a type it documents.
SupportedNumber ==
    /\ call.op = "Number"
    /\ IF live.cursor = "BinaryReader" THEN call.arg \in PtrTypes
                                        ELSE call.arg.type \in NumTypes

\* C1: once Err() is non-nil, Bytes, Number (of a supported type), All and
\* Add return failed=true, read or write nothing, and leave N() and Err() as
\* they were.
C1_StickyBinary ==
    (call.pre.err # Nil /\ (call.op \in {"Bytes", "All", "Add"} \/ SupportedNumber)) =>
        /\ call.ret.panic = NoPanic
        /\ call.ret.failed
        /\ Cursor = call.pre

\* A writer that took part of a buffer and failed is asked to write a number.
C1_Witness ==
    /\ live.cursor = "BinaryWriter" /\ SupportedNumber
    /\ call.pre.err = ErrIO /\ Len(call.pre.w) > 0

\* The last call was op on a BinaryReader with no fault latched.
ReaderCall(op) ==
    live.cursor = "BinaryReader" /\ call.op = op /\ call.pre.err = Nil

\* The last call was op on a BinaryWriter with no fault latched.
WriterCall(op) ==
    live.cursor = "BinaryWriter" /\ call.op = op /\ call.pre.err = Nil

\* The bytes the source held past the reader's position before the call.
Remaining == Len(input) - call.pre.r

\* The bytes the sink accepted during the call.
Accepted == SubSeq(bw.w, Len(call.pre.w) + 1, Len(bw.w))

\* C13 as stated: Bytes(p) on a fault-free reader whose source ends after
\* m < len(p) more bytes, for any m >= 0, returns failed=true, latches
\* io.ErrUnexpectedEOF and adds exactly m to N().
C13_ShortReadUnexpected ==
    (ReaderCall("Bytes") /\ tail = "EOF" /\ Remaining < call.arg) =>
        /\ call.ret.failed
        /\ br.err = ErrUnexpectedEOF
        /\ br.n = call.pre.n + Remaining

\* C13 amended: such a call returns failed=true and adds exactly m to N();
\* it latches io.ErrUnexpectedEOF when m >= 1 and io.EOF when m = 0.  Bytes
\* never returns success with fewer than len(p) bytes read.
C13_ShortReadFails ==
    /\ (ReaderCall("Bytes") /\ tail = "EOF" /\ Remaining < call.arg) =>
           /\ call.ret.failed
           /\ br.err = IF Remaining = 0 THEN EOF ELSE ErrUnexpectedEOF
           /\ br.n = call.pre.n + Remaining
           /\ br.r = Len(input)
    /\ (ReaderCall("Bytes") /\ ~call.ret.failed) =>
           /\ Len(call.ret.p) = call.arg
           /\ br.n = call.pre.n + call.arg

\* Bytes of length 10 against a 6-byte stream: failed, and N() = 6.
C13_Witness ==
    /\ ReaderCall("Bytes") /\ call.arg = 10 /\ call.pre = NewBinaryReader
    /\ input = Pattern(6) /\ tail = "EOF"
    /\ call.ret.failed /\ br.n = 6 /\ br.err = ErrUnexpectedEOF

\* C14: Bytes(p) on a fault-free writer adds to N() exactly the number of
\* bytes the sink accepted, and returns failed=true when that is fewer than
\* len(p); when the sink accepts all of p, N() grows by len(p).
C14_ShortWrite ==
    WriterCall("Bytes") =>
        /\ bw.n = call.pre.n + Len(Accepted)
        /\ Accepted = SubSeq(call.arg, 1, Len(Accepted))
        /\ Len(Accepted) < Len(call.arg) => call.ret.failed
        /\ Len(Accepted) = Len(call.arg) => bw.n = call.pre.n + Len(call.arg)

\* The sink took two of three bytes: failed, and N() grew by two.
C14_Witness ==
    /\ WriterCall("Bytes") /\ call.arg = <<7, 8, 9>> /\ Accepted = <<7, 8>>
    /\ call.ret.failed /\ bw.n = call.pre.n + 2

\* The type a pointer type points to.
Elem(p) == CHOOSE ty \in NumTypes : Ptr(ty) = p

\* A new reader over the bytes of the number a writer sent is asked for a
\* number of the same type, in the byte order the writer had.
ReadBack ==
    /\ live.cursor = "BinaryReader" /\ live.sent # NoNumber
    /\ call.op = "Number" /\ call.arg = Ptr(live.sent.type)
    /\ call.pre = [NewBinaryReader EXCEPT !.ord = bw.ord]

\* C15: a number of a supported type written by Number to a new writer, in
\* either byte order, and read back by Number from a new reader over the
\* bytes produced, in the same order and type, comes back as written; both
\* calls succeed and both N() are the width of the type.  Conversely, a
\* number Number decoded, written by Number in the same order, gives the
\* bytes it was decoded from.
C15_RoundTrip ==
    /\ ReadBack =>
           /\ call.ret.panic = NoPanic /\ ~call.ret.failed
           /\ call.ret.v.bits = live.sent.bits
           /\ br.n = NumberSize(live.sent.type) /\ br.err = Nil
           /\ bw.n = NumberSize(live.sent.type) /\ bw.err = Nil
           /\ NumberSize(live.sent.type) = Len(live.sent.bits)
    /\ (ReaderCall("Number") /\ call.arg \in PtrTypes /\ ~call.ret.failed) =>
           LET x == SubSeq(input, call.pre.r + 1, br.r)
               w == BinaryWriter_Number([NewBinaryWriter EXCEPT !.ord = call.pre.ord],
                                        [type |-> Elem(call.arg),
                                         bits |-> call.ret.v.bits], Len(x), Nil)
           IN  /\ ~w.ret.failed
               /\ w.b.w = x
               /\ w.b.n = NumberSize(call.arg)

\* The smallest int16, written and read back big-endian.
C15_Witness ==
    /\ ReadBack /\ live.sent = [type |-> "int16", bits |-> <<0, 128>>]
    /\ bw.ord = BigEndian /\ input = <<128, 0>>
    /\ call.ret.v.bits = <<0, 128>>

\* The bytes of a bit pattern in a byte order: least significant byte first
\* under little-endian, most significant first under big-endian.
Layout(ord, bits) ==
    [i \in 1..Len(bits) |->
        IF ord = LittleEndian THEN bits[i] ELSE bits[Len(bits) + 1 - i]]

\* The uint32 0x01020304.
Sample == [type |-> "uint32", bits |-> <<4, 3, 2, 1>>]

\* C16: a new reader or writer is little-endian.  SetByteOrder(o) with o
\* non-nil changes the byte order and nothing else (N(), Err(), the position
\* and the bytes written stay), SetByteOrder(nil) panics and changes
\* nothing, and no other call changes the order.  Number lays a number out
\* in the order in force: uint32 0x01020304 is written 04 03 02 01 under
\* little-endian and 01 02 03 04 under big-endian, and Number reads by the
\* same layout.
C16_ByteOrder ==
    /\ call.op = "New" => Cursor.ord = LittleEndian
    /\ (call.op = "SetByteOrder" /\ call.arg # Nil) =>
           call.ret.panic = NoPanic /\ Cursor = [call.pre EXCEPT !.ord = call.arg]
    /\ (call.op = "SetByteOrder" /\ call.arg = Nil) =>
           call.ret.panic # NoPanic /\ Cursor = call.pre
    /\ call.op # "SetByteOrder" => Cursor.ord = call.pre.ord
    /\ (WriterCall("Number") /\ call.arg.type \in NumTypes
           /\ Len(Accepted) = NumberSize(call.arg.type)) =>
           /\ Accepted = Layout(call.pre.ord, call.arg.bits)
           /\ call.arg = Sample =>
                  Accepted = IF call.pre.ord = LittleEndian THEN <<4, 3, 2, 1>>
                             ELSE <<1, 2, 3, 4>>
    /\ (ReaderCall("Number") /\ call.arg \in PtrTypes /\ ~call.ret.failed) =>
           SubSeq(input, call.pre.r + 1, br.r) = Layout(call.pre.ord, call.ret.v.bits)

\* A writer switched to big-endian writes uint32 0x01020304 as 01 02 03 04.
C16_Witness ==
    /\ WriterCall("Number") /\ call.arg = Sample
    /\ call.pre.ord = BigEndian /\ bw.w = <<1, 2, 3, 4>>

\* C17: in every state, a fault latched or not, Number called with a value
\* outside the documented set (reader: a pointer to a numeric type; writer:
\* a numeric value) panics; it returns no failed flag and leaves Err() as it
\* was.
C17_MisusePanics ==
    (call.op = "Number" /\ ~SupportedNumber) =>
        /\ call.ret.panic # NoPanic
        /\ Cursor.err = call.pre.err

\* C18: N() is 0 and Err() nil on a new cursor, and no call, Add(n, err)
\* with any n included, leaves N() smaller than it found it.
C18_CountMonotonic ==
    /\ call.op = "New" => Cursor.n = 0 /\ Cursor.err = Nil
    /\ Cursor.n >= call.pre.n

\* C19: whenever Bytes, Number, All or Add returns, the failed flag is true
\* exactly when Err() is non-nil after the call.
C19_FlagIsFault ==
    (call.op \in {"Bytes", "Number", "All", "Add"} /\ call.ret.panic = NoPanic) =>
        (call.ret.failed <=> Cursor.err # Nil)

\* C20: when Number panics with "invalid type", the call has read or
\* written no byte, and N() and Err() are as they were.
C20_PanicNoEffect ==
    (call.op = "Number" /\ call.ret.panic = "invalid type") => Cursor = call.pre

====
